---- MODULE Spec2Model ----
(***************************************************************************)
(* shader-cam (src/src/main.rs): a V4L2 camera is opened, the best YUYV    *)
(* format is negotiated, and every frame is converted to RGB, uploaded to  *)
(* a texture and drawn through a CRT shader until the window is closed.    *)
(*                                                                         *)
(* The module models                                                       *)
(*   - yuyv_to_rgb with the f32 arithmetic of the source (every product    *)
(*     and every sum rounded to the nearest single-precision value),       *)
(*   - get_best_format with its u32 score arithmetic (checked in a debug   *)
(*     build, wrapping in a release build),                                *)
(*   - main as a sequential state machine, one action per call.            *)
(***************************************************************************)
EXTENDS Integers, Naturals, Sequences, FiniteSets, TLC

VARIABLES
    pc,              \* position of main
    build,           \* "debug" | "release": decides what a u32 overflow does
    caps,            \* what the device enumerates, in the order the loops visit it
    negotiated,      \* result of get_best_format: [width, height, fourcc, fps]
    cam_format,      \* the format the device reported back on set_format
    hist,            \* the startup steps that have succeeded, in order
    target,          \* the texture: [width, height, pixels]
    buf,             \* the frame returned by the last stream.next()
    rgb_buf,         \* the result of the last yuyv_to_rgb
    iter,            \* per-iteration bookkeeping of the loop
    closeRequested,  \* the window has been asked to close (close button / exit key)
    exitStatus,      \* process exit status, -1 while running
    error,           \* the error the session failed with, "none" otherwise
    call             \* a direct call of one of the two pure functions

vars == <<pc, build, caps, negotiated, cam_format, hist, target, buf,
          rgb_buf, iter, closeRequested, exitStatus, error, call>>

(***************************************************************************)
(* Single-precision arithmetic.  Every f32 value yuyv_to_rgb can produce   *)
(* has a magnitude below 2^10 and is a multiple of 2^-25, so a value is    *)
(* held exactly as sign, integer part and fraction in units of 2^-25.      *)
(***************************************************************************)
Unit == 2^25

Pow2(n) == 2^n

\* floor(log2(n)) for n >= 1
RECURSIVE Log2(_)
Log2(n) == IF n < 2 THEN 0 ELSE 1 + Log2(n \div 2)

F32(neg, ip, fp) == [neg |-> neg, ip |-> ip, fp |-> fp]

\* Spacing of the f32 grid around a magnitude ip + fp/Unit, in units of 2^-25:
\* 2^(e-23) for a magnitude in [2^e, 2^(e+1)).
Quantum(ip, fp) ==
    IF ip > 0 THEN Pow2(Log2(ip) + 2)
    ELSE IF fp >= Unit \div 2 THEN 2
    ELSE 1

\* Round to nearest f32, ties to even (IEEE 754 default, used by every Rust
\* f32 operation).
RoundF32(neg, ip, fp) ==
    LET q    == Quantum(ip, fp)
        k    == fp \div q
        rem  == fp % q
        up   == (2 * rem > q) \/ (2 * rem = q /\ k % 2 = 1)
        fp2  == (IF up THEN k + 1 ELSE k) * q
    IN  IF fp2 = Unit THEN F32(neg, ip + 1, 0) ELSE F32(neg, ip, fp2)

\* An integer (a byte, or a byte minus 128) as f32: exact.
IntF32(n) == IF n < 0 THEN F32(TRUE, -n, 0) ELSE F32(FALSE, n, 0)

\* An f32 literal times an integer-valued f32.  The literal is mant / 2^shift.
MulF32(mant, shift, n) ==
    LET a    == IF n < 0 THEN -n ELSE n
        p    == mant * a
        ip   == p \div Pow2(shift)
        fp   == (p % Pow2(shift)) * Pow2(25 - shift)
    IN  RoundF32(n < 0, ip, fp)

MagLess(a, b) == a.ip < b.ip \/ (a.ip = b.ip /\ a.fp < b.fp)

MagAdd(neg, a, b) ==
    LET s == a.fp + b.fp
    IN  IF s >= Unit THEN RoundF32(neg, a.ip + b.ip + 1, s - Unit)
        ELSE RoundF32(neg, a.ip + b.ip, s)

\* a - b for magnitudes with b <= a
MagSub(neg, a, b) ==
    IF a.fp >= b.fp THEN RoundF32(neg, a.ip - b.ip, a.fp - b.fp)
    ELSE RoundF32(neg, a.ip - b.ip - 1, a.fp + Unit - b.fp)

AddF32(a, b) ==
    IF a.neg = b.neg THEN MagAdd(a.neg, a, b)
    ELSE IF MagLess(a, b) THEN MagSub(b.neg, b, a)
    ELSE MagSub(a.neg, a, b)

NegF32(a) == F32(~a.neg, a.ip, a.fp)

SubF32(a, b) == AddF32(a, NegF32(b))

\* Variant: the cast without the clamp.
ClampToU8_NoClamp(x) == IF x.neg THEN -x.ip ELSE x.ip

\* x.clamp(0.0, 255.0) as u8: the cast truncates toward zero.
ClampToU8(x) ==
    IF x.neg THEN 0
    ELSE IF x.ip >= 255 THEN 255
    ELSE x.ip

\* The f32 literals of yuyv_to_rgb: mantissa of the nearest f32.
\*   1.402    = 11760828 / 2^23     0.344136 = 11547288 / 2^25
\*   0.714136 = 11981214 / 2^24     1.772    = 14864613 / 2^23
M_1_402 == 11760828
M_0_344136 == 11547288
M_0_714136 == 11981214
M_1_772 == 14864613

\* let r = (y + 1.402 * v).clamp(0.0, 255.0) as u8;
ChannelR(y, u, v) == ClampToU8(AddF32(IntF32(y), MulF32(M_1_402, 23, v)))

\* let g = (y - 0.344136 * u - 0.714136 * v).clamp(0.0, 255.0) as u8;
ChannelG(y, u, v) ==
    ClampToU8(SubF32(SubF32(IntF32(y), MulF32(M_0_344136, 25, u)),
                     MulF32(M_0_714136, 24, v)))

\* let b = (y + 1.772 * u).clamp(0.0, 255.0) as u8;
ChannelB(y, u, v) == ClampToU8(AddF32(IntF32(y), MulF32(M_1_772, 23, u)))

\* One pixel: rgb.extend_from_slice(&[r, g, b])
Pixel(y, u, v) == <<ChannelR(y, u, v), ChannelG(y, u, v), ChannelB(y, u, v)>>

\* The body of the while loop for the group starting at 0-based index i.
GroupRgb(yuyv, i) ==
    LET y0 == yuyv[i + 1]
        u  == yuyv[i + 2] - 128
        y1 == yuyv[i + 3]
        v  == yuyv[i + 4] - 128
    IN  Pixel(y0, u, v) \o Pixel(y1, u, v)

\* Variant: a loop bound that is off by one.
HasGroup_OffByOne(yuyv, i) == i + 4 < Len(yuyv)

\* while i + 3 < yuyv.len()
HasGroup(yuyv, i) == i + 3 < Len(yuyv)

\* i += 4
NextGroup(i) == i + 4

RECURSIVE ConvertFrom(_, _, _)
ConvertFrom(yuyv, i, rgb) ==
    IF HasGroup(yuyv, i)
    THEN ConvertFrom(yuyv, NextGroup(i), rgb \o GroupRgb(yuyv, i))
    ELSE rgb

yuyv_to_rgb(yuyv) == ConvertFrom(yuyv, 0, <<>>)

(***************************************************************************)
(* u32 arithmetic.  A u32 is held as two 16-bit limbs so that products up  *)
(* to 2^32 and their wrap-around are computed exactly.                     *)
(***************************************************************************)
Limb == 2^16

ToU32(n) == [hi |-> (n \div Limb) % Limb, lo |-> n % Limb]

\* The exact product of two 16-bit limbs, as limbs.
Mul16(x, y) ==
    LET t1  == (x \div 256) * y
        los == (t1 % 256) * 256 + (x % 256) * y
    IN  [hi |-> (t1 \div 256) + (los \div Limb), lo |-> los % Limb]

\* a * b on u32: the wrapped product and whether the exact product left u32.
MulU32(a, b) ==
    LET p   == Mul16(a.lo, b.lo)
        m1  == Mul16(a.hi, b.lo)
        m2  == Mul16(a.lo, b.hi)
        mid == m1.lo + m2.lo + p.hi
    IN  [val |-> [hi |-> mid % Limb, lo |-> p.lo],
         overflow |-> (a.hi > 0 /\ b.hi > 0) \/ m1.hi > 0 \/ m2.hi > 0
                      \/ mid >= Limb]

GreaterU32(a, b) == a.hi > b.hi \/ (a.hi = b.hi /\ a.lo > b.lo)

\* w * h * fps * fps, evaluated left to right as Rust does.
Score(w, h, fps) ==
    LET p1 == MulU32(ToU32(w), ToU32(h))
        p2 == MulU32(p1.val, ToU32(fps))
        p3 == MulU32(p2.val, ToU32(fps))
    IN  [val |-> p3.val, overflow |-> p1.overflow \/ p2.overflow \/ p3.overflow]

(***************************************************************************)
(* get_best_format.  The three nested enumeration loops visit a sequence   *)
(* of (format, frame size, frame interval) descriptors; caps is that       *)
(* sequence in visiting order.                                             *)
(***************************************************************************)
YUYV == "YUYV"

Path(fourcc, sizeKind, w, h, ivKind, num, den) ==
    [fourcc |-> fourcc, sizeKind |-> sizeKind, width |-> w, height |-> h,
     ivKind |-> ivKind, numerator |-> num, denominator |-> den]

\* let mut best_width = 0; ... let mut best_fourcc = FourCC::new(b"YUYV");
InitialBest ==
    [width |-> 0, height |-> 0, fps |-> 0, fourcc |-> YUYV,
     panicked |-> FALSE, overflowed |-> FALSE]

\* The three `continue` filters of the loops.
Survives(p) ==
    /\ p.fourcc = YUYV
    /\ p.sizeKind = "Discrete"
    /\ p.ivKind = "Discrete"
    /\ p.numerator > 0

\* f.denominator / f.numerator
FrameRate(p) == p.denominator \div p.numerator

\* w * h * fps * fps > best_width * best_height * best_fps * best_fps
Better(w, h, fps, best) ==
    GreaterU32(Score(w, h, fps).val,
               Score(best.width, best.height, best.fps).val)

\* One execution of the innermost loop body.  In a debug build an overflowing
\* multiplication panics; in a release build it wraps.
BestStep(best, p, bld) ==
    IF best.panicked \/ ~Survives(p) THEN best
    ELSE LET fps == FrameRate(p)
             ovf == Score(p.width, p.height, fps).overflow
                    \/ Score(best.width, best.height, best.fps).overflow
         IN  IF ovf /\ bld = "debug"
             THEN [best EXCEPT !.panicked = TRUE, !.overflowed = TRUE]
             ELSE IF Better(p.width, p.height, fps, best)
                  THEN [best EXCEPT !.width = p.width, !.height = p.height,
                                    !.fps = fps, !.fourcc = p.fourcc,
                                    !.overflowed = @ \/ ovf]
                  ELSE [best EXCEPT !.overflowed = @ \/ ovf]

RECURSIVE BestFrom(_, _, _, _)
BestFrom(list, k, best, bld) ==
    IF k > Len(list) THEN best
    ELSE BestFrom(list, k + 1, BestStep(best, list[k], bld), bld)

\* (Format::new(best_width, best_height, best_fourcc), best_fps), or a panic
get_best_format(list, bld) == BestFrom(list, 1, InitialBest, bld)

(***************************************************************************)
(* Inputs: what the device enumerates, what it reports back, which frames  *)
(* it delivers.                                                            *)
(***************************************************************************)
MaxCaps == 3
MaxLen == 9
MaxFrameLen == 11

RECURSIVE SeqsUpTo(_, _)
SeqsUpTo(S, n) ==
    IF n = 0 THEN {<<>>}
    ELSE LET shorter == SeqsUpTo(S, n - 1)
         IN  shorter \cup {Append(q, x) : q \in {r \in shorter : Len(r) = n - 1},
                                          x \in S}

Discrete(w, h, num, den) == Path(YUYV, "Discrete", w, h, "Discrete", num, den)

\* Descriptors of a real camera: VGA, 720p and 1080p at 30 and 60 fps, a
\* 2-second interval (integer frame rate 0), a zero numerator, stepwise sizes
\* and intervals, and a compressed format.
CameraPaths ==
    {Discrete(sz[1], sz[2], iv[1], iv[2]) :
        sz \in {<<640, 480>>, <<1280, 720>>, <<1920, 1080>>},
        iv \in {<<1, 30>>, <<1, 60>>, <<2, 1>>, <<0, 1>>}}
    \cup {Path(YUYV, "Discrete", 640, 480, "Stepwise", 1, 30),
          Path(YUYV, "Stepwise", 640, 480, "Discrete", 1, 30),
          Path("MJPG", "Discrete", 1920, 1080, "Discrete", 1, 60)}

CameraCaps == SeqsUpTo(CameraPaths, MaxCaps)

\* The frame sizes the session's device can be set to, small enough for whole
\* frames to be enumerated.
DeviceSizes == {<<2, 1>>, <<2, 2>>}

DeviceFourccs == {YUYV, "MJPG"}

\* Enumerations of the session's device.
SessionCaps ==
    {<<>>,
     <<Path("MJPG", "Discrete", 2, 2, "Discrete", 1, 30)>>,
     <<Discrete(2, 2, 1, 30)>>,
     <<Discrete(2, 1, 1, 30), Discrete(2, 2, 1, 30)>>,
     <<Discrete(2, 2, 2, 1)>>,
     <<Discrete(1920, 1080, 1, 60), Discrete(2, 2, 1, 30)>>}

Builds == {"debug", "release"}

\* The first n bytes of the group g repeated.
Cyclic(g, n) == [k \in 1..n |-> g[((k - 1) % 4) + 1]]

SessionGroups == {<<16, 128, 16, 128>>, <<128, 255, 235, 0>>}

SessionFrames == {Cyclic(g, n) : g \in SessionGroups, n \in 0..MaxFrameLen}

ConvBytes == {0, 16, 28, 128, 228, 235, 255}

ConvInputs ==
    {Cyclic(<<y0, u, y1, v>>, n) :
        y0 \in ConvBytes, u \in ConvBytes, y1 \in ConvBytes, v \in ConvBytes,
        n \in 0..MaxLen}

(***************************************************************************)
(* main                                                                    *)
(***************************************************************************)
NoFormat == [width |-> 0, height |-> 0, fourcc |-> "none"]
NoTexture == [width |-> 0, height |-> 0, pixels |-> <<>>, loaded |-> FALSE]
NoCall == [fn |-> "none"]
NoIter == [steps |-> <<>>, closeRead |-> FALSE, drawn |-> <<>>]

Terminal == {"exited", "panicked"}

Init ==
    /\ pc = "start"
    /\ build \in Builds
    /\ caps \in SessionCaps
    /\ negotiated = InitialBest
    /\ cam_format = NoFormat
    /\ hist = <<>>
    /\ target = NoTexture
    /\ buf = <<>>
    /\ rgb_buf = <<>>
    /\ iter = NoIter
    /\ closeRequested = FALSE
    /\ exitStatus = -1
    /\ error = "none"
    /\ call = NoCall

\* A failed unwrap / expect / panic!: the process ends with status 101.
Panic(err) ==
    /\ pc' = "panicked"
    /\ error' = err
    /\ exitStatus' = 101

Running ==
    /\ error' = error
    /\ exitStatus' = exitStatus

\* let mut dev = Device::new(0).expect("Could not open camera");
OpenDevice ==
    /\ pc = "start"
    /\ \E ok \in BOOLEAN :
         IF ok THEN /\ pc' = "negotiate"
                    /\ hist' = Append(hist, "open")
                    /\ Running
         ELSE Panic("DeviceError") /\ hist' = hist
    /\ UNCHANGED <<build, caps, negotiated, cam_format, target, buf, rgb_buf,
                   iter, closeRequested, call>>

\* let (fmt, fps) = get_best_format(&dev);
GetBestFormat ==
    /\ pc = "negotiate"
    /\ \E ok \in BOOLEAN :
         LET r == get_best_format(caps, build)
         IN  IF ~ok THEN Panic("DeviceError") /\ UNCHANGED <<negotiated, hist>>
             ELSE IF r.panicked
                  THEN Panic("ArithmeticOverflow") /\ UNCHANGED <<negotiated, hist>>
                  ELSE /\ negotiated' = r
                       /\ hist' = Append(hist, "negotiate")
                       /\ pc' = "set_format"
                       /\ Running
    /\ UNCHANGED <<build, caps, cam_format, target, buf, rgb_buf, iter,
                   closeRequested, call>>

\* What the driver may report back for a VIDIOC_S_FMT request: it adjusts the
\* request to something it supports.
DeviceReply ==
    {[width |-> sz[1], height |-> sz[2], fourcc |-> f] :
        sz \in DeviceSizes, f \in DeviceFourccs}

\* let cam_format = dev.set_format(&fmt).unwrap();
SetFormat ==
    /\ pc = "set_format"
    /\ \E ok \in BOOLEAN, reply \in DeviceReply :
         IF ok THEN /\ cam_format' = reply
                    /\ hist' = Append(hist, "set_format")
                    /\ pc' = "check_fourcc"
                    /\ Running
         ELSE Panic("DeviceError") /\ UNCHANGED <<cam_format, hist>>
    /\ UNCHANGED <<build, caps, negotiated, target, buf, rgb_buf, iter,
                   closeRequested, call>>

\* Variant: the reported encoding is not checked.
CheckFourcc_NoCheck ==
    /\ pc = "check_fourcc"
    /\ hist' = Append(hist, "check_fourcc")
    /\ pc' = "create_stream"
    /\ Running
    /\ UNCHANGED <<build, caps, negotiated, cam_format, target, buf, rgb_buf,
                   iter, closeRequested, call>>

\* if cam_format.fourcc.str().expect("fourcc error") != "YUYV" { panic!(..) }
CheckFourcc ==
    /\ pc = "check_fourcc"
    /\ IF cam_format.fourcc # YUYV
       THEN Panic("FormatMismatch") /\ hist' = hist
       ELSE /\ hist' = Append(hist, "check_fourcc")
            /\ pc' = "create_stream"
            /\ Running
    /\ UNCHANGED <<build, caps, negotiated, cam_format, target, buf, rgb_buf,
                   iter, closeRequested, call>>

\* MmapStream::with_buffers(&mut dev, Type::VideoCapture, 4).expect(..)
CreateStream ==
    /\ pc = "create_stream"
    /\ \E ok \in BOOLEAN :
         IF ok THEN /\ hist' = Append(hist, "create_stream")
                    /\ pc' = "gen_image"
                    /\ Running
         ELSE Panic("DeviceError") /\ hist' = hist
    /\ UNCHANGED <<build, caps, negotiated, cam_format, target, buf, rgb_buf,
                   iter, closeRequested, call>>

\* Image::gen_image_color(width, height, BLACK) as R8G8B8: 3 zero bytes a pixel
BlackImage(w, h) ==
    [width |-> w, height |-> h, pixels |-> [k \in 1..(w * h * 3) |-> 0],
     loaded |-> FALSE]

\* let mut img = Image::gen_image_color(cam_format.width as i32, ..);
GenImage ==
    /\ pc = "gen_image"
    /\ target' = BlackImage(cam_format.width, cam_format.height)
    /\ hist' = Append(hist, "gen_image")
    /\ pc' = "load_shader"
    /\ Running
    /\ UNCHANGED <<build, caps, negotiated, cam_format, buf, rgb_buf, iter,
                   closeRequested, call>>

\* let mut shader = rl.load_shader_from_memory(..): no failure path
LoadShader ==
    /\ pc = "load_shader"
    /\ hist' = Append(hist, "load_shader")
    /\ pc' = "load_texture"
    /\ Running
    /\ UNCHANGED <<build, caps, negotiated, cam_format, target, buf, rgb_buf,
                   iter, closeRequested, call>>

\* rl.load_texture_from_image(&thread, &img).expect("load texture")
LoadTexture ==
    /\ pc = "load_texture"
    /\ \E ok \in BOOLEAN :
         IF ok THEN /\ target' = [target EXCEPT !.loaded = TRUE]
                    /\ hist' = Append(hist, "load_texture")
                    /\ pc' = "loop_top"
                    /\ Running
         ELSE Panic("TextureCreateError") /\ UNCHANGED <<target, hist>>
    /\ UNCHANGED <<build, caps, negotiated, cam_format, buf, rgb_buf, iter,
                   closeRequested, call>>

Step(name) == iter' = [iter EXCEPT !.steps = Append(@, name)]

\* Variant: the loop condition is not consulted.
LoopTop_IgnoreClose ==
    /\ pc = "loop_top"
    /\ pc' = "capture"
    /\ Running
    /\ iter' = [steps |-> <<"poll">>, closeRead |-> FALSE, drawn |-> <<>>]
    /\ UNCHANGED <<build, caps, negotiated, cam_format, hist, target, buf,
                   rgb_buf, closeRequested, call>>

\* while !rl.window_should_close(): leaving the loop returns from main
LoopTop ==
    /\ pc = "loop_top"
    /\ IF closeRequested
       THEN /\ pc' = "exited"
            /\ exitStatus' = 0
            /\ error' = error
            /\ iter' = [steps |-> <<"poll">>, closeRead |-> TRUE, drawn |-> <<>>]
       ELSE /\ pc' = "capture"
            /\ Running
            /\ iter' = [steps |-> <<"poll">>, closeRead |-> FALSE, drawn |-> <<>>]
    /\ UNCHANGED <<build, caps, negotiated, cam_format, hist, target, buf,
                   rgb_buf, closeRequested, call>>

\* let (buf, meta) = stream.next().unwrap(): blocks until the device answers
Capture ==
    /\ pc = "capture"
    /\ \E ok \in BOOLEAN, frame \in SessionFrames :
         IF ok THEN /\ buf' = frame
                    /\ Step("capture")
                    /\ pc' = "convert"
                    /\ Running
         ELSE Panic("StreamError") /\ UNCHANGED <<buf, iter>>
    /\ UNCHANGED <<build, caps, negotiated, cam_format, hist, target, rgb_buf,
                   closeRequested, call>>

\* yuyv_to_rgb of every frame the session's device can deliver, evaluated
\* once per frame rather than once per state.
ConvertedFrame == [frame \in SessionFrames |-> yuyv_to_rgb(frame)]

\* let rgb_buf = yuyv_to_rgb(buf);
Convert ==
    /\ pc = "convert"
    /\ rgb_buf' = ConvertedFrame[buf]
    /\ Step("convert")
    /\ pc' = "begin_drawing"
    /\ Running
    /\ UNCHANGED <<build, caps, negotiated, cam_format, hist, target, buf,
                   closeRequested, call>>

\* Variant: the texture is drawn before it is updated.
BeginDrawing_SkipUpload ==
    /\ pc = "begin_drawing"
    /\ iter' = [iter EXCEPT !.steps = Append(@, "begin")]
    /\ pc' = "draw"
    /\ Running
    /\ UNCHANGED <<build, caps, negotiated, cam_format, hist, target, buf,
                   rgb_buf, closeRequested, call>>

\* let mut d = rl.begin_drawing(&thread); d.clear_background(Color::BLACK);
BeginDrawing ==
    /\ pc = "begin_drawing"
    /\ Step("begin")
    /\ pc' = "upload"
    /\ Running
    /\ UNCHANGED <<build, caps, negotiated, cam_format, hist, target, buf,
                   rgb_buf, closeRequested, call>>

\* raylib's Texture2D::update_texture accepts exactly width * height * 3
\* bytes for an R8G8B8 texture.
TextureByteLength(t) == t.width * t.height * 3

\* Variant: the result of update_texture is ignored.
UpdateTexture_NoCheck ==
    /\ pc = "upload"
    /\ target' = [target EXCEPT !.pixels = rgb_buf]
    /\ iter' = [iter EXCEPT !.steps = Append(@, "upload")]
    /\ pc' = "draw"
    /\ Running
    /\ UNCHANGED <<build, caps, negotiated, cam_format, hist, buf, rgb_buf,
                   closeRequested, call>>

\* target.update_texture(&rgb_buf).expect("Update Texture");
UpdateTexture ==
    /\ pc = "upload"
    /\ IF Len(rgb_buf) = TextureByteLength(target)
       THEN /\ target' = [target EXCEPT !.pixels = rgb_buf]
            /\ Step("upload")
            /\ pc' = "draw"
            /\ Running
       ELSE /\ Panic("SizeMismatch")
            /\ Step("upload_failed")
            /\ target' = target
    /\ UNCHANGED <<build, caps, negotiated, cam_format, hist, buf, rgb_buf,
                   closeRequested, call>>

\* d.draw_shader_mode(&mut shader, |mut s| { .. s.draw_texture_pro(&target, ..) });
Draw ==
    /\ pc = "draw"
    /\ iter' = [iter EXCEPT !.steps = Append(@, "draw"), !.drawn = target.pixels]
    /\ pc' = "present"
    /\ Running
    /\ UNCHANGED <<build, caps, negotiated, cam_format, hist, target, buf,
                   rgb_buf, closeRequested, call>>

\* Variant: the loop condition is tested once, before the first iteration.
Present_SkipPoll ==
    /\ pc = "present"
    /\ iter' = [steps |-> <<"poll">>, closeRead |-> FALSE, drawn |-> <<>>]
    /\ pc' = "capture"
    /\ Running
    /\ UNCHANGED <<build, caps, negotiated, cam_format, hist, target, buf,
                   rgb_buf, closeRequested, call>>

\* end of the loop body: d is dropped, which ends the drawing and presents
Present ==
    /\ pc = "present"
    /\ Step("present")
    /\ pc' = "loop_top"
    /\ Running
    /\ UNCHANGED <<build, caps, negotiated, cam_format, hist, target, buf,
                   rgb_buf, closeRequested, call>>

\* The user closes the window or presses the exit key.
RequestClose ==
    /\ pc \notin Terminal
    /\ pc # "unit"
    /\ ~closeRequested
    /\ closeRequested' = TRUE
    /\ UNCHANGED <<pc, build, caps, negotiated, cam_format, hist, target, buf,
                   rgb_buf, iter, exitStatus, error, call>>

\* Every step of main that does not wait for the device.
MainStep ==
    \/ OpenDevice
    \/ GetBestFormat
    \/ SetFormat
    \/ CheckFourcc
    \/ CreateStream
    \/ GenImage
    \/ LoadShader
    \/ LoadTexture
    \/ LoopTop
    \/ Convert
    \/ BeginDrawing
    \/ UpdateTexture
    \/ Draw
    \/ Present

Next ==
    \/ OpenDevice
    \/ GetBestFormat
    \/ SetFormat
    \/ CheckFourcc
    \/ CreateStream
    \/ GenImage
    \/ LoadShader
    \/ LoadTexture
    \/ LoopTop
    \/ Capture
    \/ Convert
    \/ BeginDrawing
    \/ UpdateTexture
    \/ Draw
    \/ Present
    \/ RequestClose

Spec == Init /\ [][Next]_vars

\* main is sequential: a step that does not wait for the device is taken.
\* stream.next() may block for ever, so Capture carries no fairness.
LiveSpec == Init /\ [][Next]_vars /\ WF_vars(MainStep)

(***************************************************************************)
(* Direct calls of the two pure functions, on richer inputs than a session *)
(* can enumerate: a byte buffer handed to yuyv_to_rgb, an enumeration      *)
(* handed to get_best_format.                                              *)
(***************************************************************************)
InitUnit ==
    /\ pc = "unit"
    /\ negotiated = InitialBest
    /\ cam_format = NoFormat
    /\ hist = <<>>
    /\ target = NoTexture
    /\ buf = <<>>
    /\ rgb_buf = <<>>
    /\ iter = NoIter
    /\ closeRequested = FALSE
    /\ exitStatus = -1
    /\ error = "none"

InitConvert ==
    /\ InitUnit
    /\ build = "release"
    /\ caps = <<>>
    /\ call \in {[fn |-> "yuyv_to_rgb", arg |-> b, done |-> FALSE, ret |-> <<>>] :
                    b \in ConvInputs}

InitNegotiate ==
    /\ InitUnit
    /\ build \in Builds
    /\ caps \in CameraCaps
    /\ call = [fn |-> "get_best_format", done |-> FALSE, ret |-> InitialBest]

CallYuyvToRgb ==
    /\ call.fn = "yuyv_to_rgb"
    /\ ~call.done
    /\ call' = [call EXCEPT !.done = TRUE, !.ret = yuyv_to_rgb(call.arg)]
    /\ UNCHANGED <<pc, build, caps, negotiated, cam_format, hist, target, buf,
                   rgb_buf, iter, closeRequested, exitStatus, error>>

CallGetBestFormat ==
    /\ call.fn = "get_best_format"
    /\ ~call.done
    /\ call' = [call EXCEPT !.done = TRUE, !.ret = get_best_format(caps, build)]
    /\ UNCHANGED <<pc, build, caps, negotiated, cam_format, hist, target, buf,
                   rgb_buf, iter, closeRequested, exitStatus, error>>

SpecConvert == InitConvert /\ [][CallYuyvToRgb]_vars

SpecNegotiate == InitNegotiate /\ [][CallGetBestFormat]_vars

(***************************************************************************)
(* Reference definitions used to state the properties.                     *)
(***************************************************************************)
Mega == 10^6

\* truncation toward zero of clamp(x, 0, 255), x given in millionths
RefTrunc(x) ==
    IF x < 0 THEN 0 ELSE IF x > 255 * Mega THEN 255 ELSE x \div Mega

\* The three channels in exact arithmetic, for bytes y, cu, cv.
RefR(y, cu, cv) == RefTrunc(y * Mega + 1402000 * (cv - 128))
RefG(y, cu, cv) ==
    RefTrunc(y * Mega - 344136 * (cu - 128) - 714136 * (cv - 128))
RefB(y, cu, cv) == RefTrunc(y * Mega + 1772000 * (cu - 128))

RefPixel(y, cu, cv) == <<RefR(y, cu, cv), RefG(y, cu, cv), RefB(y, cu, cv)>>

\* The one chroma pair at which f32 rounding shows: 0.344136*100 and
\* 0.714136*100 cancel to exactly 37 in exact arithmetic and to just under
\* 37 in f32, which a sum below 64 still resolves.
RoundsLow(y, cu, cv) == cu = 228 /\ cv = 28 /\ y <= 27

F32Pixel(y, cu, cv) ==
    <<RefR(y, cu, cv),
      IF RoundsLow(y, cu, cv) THEN RefG(y, cu, cv) - 1 ELSE RefG(y, cu, cv),
      RefB(y, cu, cv)>>

Groups(b) == 0..((Len(b) \div 4) - 1)

OutGroup(out, k) == SubSeq(out, 6 * k + 1, 6 * k + 6)

ConvDone == call.fn = "yuyv_to_rgb" /\ call.done

\* The exact value of w * h * fps * fps as [q, r] = q * 2^16 + r.
ExactScore(w, h, fps) ==
    LET x  == w * h * fps
        lo == (x % Limb) * fps
    IN  [q |-> (x \div Limb) * fps + (lo \div Limb), r |-> lo % Limb]

ExactGreater(a, b) == a.q > b.q \/ (a.q = b.q /\ a.r > b.r)

Survivors(list) == {k \in 1..Len(list) : Survives(list[k])}

PathScore(p) == ExactScore(p.width, p.height, FrameRate(p))

\* k is the first survivor of list with the maximal exact score
FirstBest(list, k) ==
    /\ k \in Survivors(list)
    /\ \A j \in Survivors(list) :
         /\ ~ExactGreater(PathScore(list[j]), PathScore(list[k]))
         /\ j < k => ExactGreater(PathScore(list[k]), PathScore(list[j]))

NegotiateDone == call.fn = "get_best_format" /\ call.done

InHist(name) == \E k \in 1..Len(hist) : hist[k] = name

InSteps(name) == \E k \in 1..Len(iter.steps) : iter.steps[k] = name

IsPrefix(s, t) == Len(s) <= Len(t) /\ s = SubSeq(t, 1, Len(s))

LoopOrder ==
    <<"poll", "capture", "convert", "begin", "upload", "draw", "present">>

LoopBody == {"capture", "convert", "begin_drawing", "upload", "draw", "present"}

(***************************************************************************)
(* The properties.                                                         *)
(***************************************************************************)

\* C1: when no enumerated descriptor survives the filter, get_best_format
\* fails with NoCompatibleFormat: it returns no format, and main never
\* applies a format or creates a stream.
C1_NoCandidateFails ==
    Survivors(caps) = {} =>
        /\ ~InHist("negotiate")
        /\ ~InHist("set_format")
        /\ ~InHist("create_stream")
        /\ (pc = "panicked" /\ hist = <<"open">> /\ error # "DeviceError"
               => error = "NoCompatibleFormat")

\* C2: with at least one surviving candidate, get_best_format returns the
\* first enumerated candidate whose score width*height*frameRate^2 is
\* maximal (so a single candidate is returned as it is).
C2_ReturnsFirstBest ==
    NegotiateDone /\ Survivors(caps) # {} =>
        /\ ~call.ret.panicked
        /\ \E k \in 1..Len(caps) :
             /\ FirstBest(caps, k)
             /\ call.ret.width = caps[k].width
             /\ call.ret.height = caps[k].height
             /\ call.ret.fps = FrameRate(caps[k])

\* C3: for a buffer of any length, yuyv_to_rgb returns exactly
\* floor(len/4)*6 bytes, and the 1 to 3 bytes after the last whole group
\* contribute nothing: the result is that of the buffer without them.
C3_OutputLength ==
    ConvDone =>
        /\ Len(call.ret) = (Len(call.arg) \div 4) * 6
        /\ call.ret = yuyv_to_rgb(SubSeq(call.arg, 1, 4 * (Len(call.arg) \div 4)))

C3_Witness == ConvDone /\ Len(call.arg) = 7 /\ Len(call.ret) = 6

\* C4 as stated: every group [Y0,U,Y1,V] yields the Y0 triplet then the Y1
\* triplet, each channel the truncation of the clamped exact value.
C4_ExactChannels ==
    ConvDone =>
        \A k \in Groups(call.arg) :
            LET g == SubSeq(call.arg, 4 * k + 1, 4 * k + 4)
            IN  OutGroup(call.ret, k)
                    = RefPixel(g[1], g[2], g[4]) \o RefPixel(g[3], g[2], g[4])

\* C4 as amended: the channels are computed in f32.  R and B always equal the
\* truncation of the clamped exact value; G does too except for U=228, V=28,
\* Y<=27, where it is one less.  Every channel lies in 0..255, the Y0 triplet
\* precedes the Y1 triplet, and neutral chroma U=V=128 gives Y on every channel.
C4_F32Channels ==
    ConvDone =>
        /\ \A k \in Groups(call.arg) :
            LET g == SubSeq(call.arg, 4 * k + 1, 4 * k + 4)
            IN  /\ OutGroup(call.ret, k)
                     = F32Pixel(g[1], g[2], g[4]) \o F32Pixel(g[3], g[2], g[4])
                /\ g[2] = 128 /\ g[4] = 128
                     => OutGroup(call.ret, k) = <<g[1], g[1], g[1], g[3], g[3], g[3]>>
        /\ \A n \in 1..Len(call.ret) : call.ret[n] \in 0..255
        /\ call.arg = <<16, 128, 16, 128>> => call.ret = <<16, 16, 16, 16, 16, 16>>
        /\ call.arg = <<235, 128, 235, 128>>
             => call.ret = <<235, 235, 235, 235, 235, 235>>

C4_Witness ==
    /\ ConvDone
    /\ call.arg = <<128, 255, 16, 0>>
    /\ call.ret = <<0, 175, 255, 0, 63, 241>>

\* C5: within an iteration the steps occur at most once and in the order
\* poll, capture, convert, begin, upload, draw, present; a finished iteration
\* has taken all of them; what is uploaded and drawn is the conversion of the
\* frame captured in the same iteration; no iteration starts before the
\* previous one has presented.
C5_StrictOrder ==
    /\ pc # "panicked" => IsPrefix(iter.steps, LoopOrder)
    /\ pc = "capture" => iter.steps = SubSeq(LoopOrder, 1, 1)
    /\ pc = "convert" => iter.steps = SubSeq(LoopOrder, 1, 2)
    /\ pc = "begin_drawing" => iter.steps = SubSeq(LoopOrder, 1, 3)
    /\ pc = "upload" => iter.steps = SubSeq(LoopOrder, 1, 4)
    /\ pc = "draw" => iter.steps = SubSeq(LoopOrder, 1, 5)
    /\ pc = "present" => iter.steps = SubSeq(LoopOrder, 1, 6)
    /\ pc = "loop_top" => iter.steps \in {<<>>, LoopOrder}
    /\ InSteps("convert") => rgb_buf = yuyv_to_rgb(buf)
    /\ InSteps("upload") => target.pixels = yuyv_to_rgb(buf)
    /\ InSteps("draw") => iter.drawn = yuyv_to_rgb(buf)

C5_Witness ==
    /\ pc = "loop_top"
    /\ iter.steps = LoopOrder
    /\ buf = <<128, 255, 235, 0>>
    /\ iter.drawn = yuyv_to_rgb(buf)

\* C6: a frame is captured only after the device was opened, the negotiated
\* format applied, the reported encoding checked to be YUYV and the stream
\* created, in this order; a reported encoding other than YUYV aborts with
\* FormatMismatch before a stream or a texture exists or a frame is read.
C6_CaptureOnlyWhenStreaming ==
    /\ (pc = "capture" \/ InSteps("capture")) =>
          /\ Len(hist) >= 5
          /\ SubSeq(hist, 1, 5) = <<"open", "negotiate", "set_format",
                                    "check_fourcc", "create_stream">>
          /\ cam_format.fourcc = YUYV
    /\ error = "FormatMismatch" =>
          /\ pc = "panicked"
          /\ hist = <<"open", "negotiate", "set_format">>
          /\ cam_format.fourcc # YUYV
          /\ target = NoTexture
          /\ buf = <<>>
          /\ iter = NoIter

C6_Witness == pc = "convert" /\ Len(buf) = 8 /\ cam_format.fourcc = YUYV

\* C7, the parts both statements share: the texture has the width and height
\* the device reported, it is created once and keeps its byte length, and an
\* upload of another length fails with SizeMismatch with no draw after it.
C7_Common ==
    /\ target # NoTexture =>
          /\ target.width = cam_format.width
          /\ target.height = cam_format.height
          /\ Len(target.pixels) = TextureByteLength(target)
    /\ Cardinality({k \in 1..Len(hist) : hist[k] = "load_texture"}) <= 1
    /\ InSteps("upload") => Len(rgb_buf) = target.width * target.height * 3
    /\ InSteps("upload_failed") <=> error = "SizeMismatch"
    /\ error = "SizeMismatch" =>
          /\ pc = "panicked"
          /\ Len(rgb_buf) # target.width * target.height * 3
          /\ ~InSteps("draw")
          /\ ~InSteps("upload")

\* C7 as stated: at every upload the raw frame is width*height*2 bytes long.
C7_RawLengthExact ==
    /\ C7_Common
    /\ InSteps("upload") => Len(buf) = target.width * target.height * 2

\* C7 as amended: at every upload the whole 4-byte groups of the raw frame
\* cover width*height*2 bytes; up to 3 further bytes may follow.
C7_SizesConsistent ==
    /\ C7_Common
    /\ InSteps("upload") =>
          /\ Len(buf) >= target.width * target.height * 2
          /\ Len(buf) <= target.width * target.height * 2 + 3

C7_Witness ==
    /\ pc = "draw"
    /\ target.width = 2
    /\ target.height = 2
    /\ Len(buf) = 10
    /\ target.pixels = rgb_buf

\* C8: window_should_close is read once per iteration, at the loop top and
\* nowhere between capture and present; a close request made during an
\* iteration does not cut it short; once the signal is read as true nothing
\* is captured, converted, uploaded or drawn any more and the exit status is 0.
C8_PolledOnceAtLoopTop ==
    /\ [](/\ pc \in LoopBody =>
               /\ iter.steps[1] = "poll"
               /\ Cardinality({k \in 1..Len(iter.steps) : iter.steps[k] = "poll"}) = 1
               /\ ~iter.closeRead
          /\ iter.closeRead <=> pc = "exited"
          /\ pc = "exited" => exitStatus = 0 /\ closeRequested)
    /\ [][/\ pc' = "exited" /\ pc # "exited" => pc = "loop_top"
          /\ pc = "loop_top" /\ pc' # pc =>
               pc' = (IF closeRequested THEN "exited" ELSE "capture")
          /\ pc \in LoopBody /\ pc' # pc => pc' \in LoopBody \cup {"loop_top", "panicked"}
          /\ iter.closeRead =>
               UNCHANGED <<pc, buf, rgb_buf, target, iter, exitStatus>>]_vars

C8_Witness ==
    /\ pc = "exited"
    /\ exitStatus = 0
    /\ iter.closeRead
    /\ target.pixels = yuyv_to_rgb(buf)
    /\ Len(buf) = 8

\* C9 as stated: once a close has been requested the process ends.
C9_CloseLeadsToExit == closeRequested ~> (pc \in Terminal)

\* C9 as amended: once a close has been requested the process ends (status 0,
\* or an abort when stream.next() fails), unless stream.next() blocks for ever.
C9_CloseLeadsToExitUnlessBlocked ==
    closeRequested ~> (pc \in Terminal \/ [](pc = "capture"))

C9_Witness ==
    /\ closeRequested
    /\ pc = "panicked"
    /\ error = "StreamError"
    /\ InHist("load_texture")

\* C10: for every candidate within width <= 4096, height <= 2160 and frame
\* rate <= 120 the u32 score does not overflow, so the result is the one the
\* exact score selects, and a candidate of frame rate 0 is never selected.
C10_ScoreFitsU32 ==
    NegotiateDone =>
        /\ ~call.ret.overflowed
        /\ ~call.ret.panicked
        /\ \A k \in Survivors(caps) :
             /\ ~Score(caps[k].width, caps[k].height, FrameRate(caps[k])).overflow
             /\ FrameRate(caps[k]) = 0 =>
                  ~(call.ret.width = caps[k].width /\ call.ret.height = caps[k].height
                    /\ call.ret.fps = 0)

====
